---- MODULE Spec2Model ----
(***************************************************************************)
(* The asset build pipeline of bmarwell.de: the avatar script              *)
(* (download, optimize, WebP quality search, responsive sizes, HTML        *)
(* reference rewriting) and the three pre-compression scripts (Brotli,     *)
(* Gzip, Zstandard).                                                       *)
(*                                                                         *)
(* Every "await" of the scripts is one step.  An awaited I/O or codec call *)
(* either completes or throws; fs.writeFile is taken as all-or-nothing.    *)
(* An image is abstracted to what the scripts read of it: its first two    *)
(* bytes, its byte length and its pixel dimensions.  The HTML document is  *)
(* a sequence of tokens, one per attribute/meta the regular expressions of *)
(* updateHTMLReferences can match or produce.                              *)
(***************************************************************************)
EXTENDS Integers, Sequences, FiniteSets, TLC

\* ---------------------------------------------------------------- bounds
\* Largest byte length of the fetched image.
MaxLen == 3
\* Largest pixel width/height of the fetched image.
MaxDim == 2
\* Redirects the hop counter tells apart; a longer chain counts as MaxHops.
MaxHops == 2
\* Longest document (in tokens) of the rewriter's own specification.
MaxDocLen == 2

\* ------------------------------------------------------- paths and URLs
\* A file name in dist/: base name, width tag (0: none) and extension.
File(base, size, ext) == [base |-> base, size |-> size, ext |-> ext]

\* A URL: origin ("" for a site-relative path) and the file it names.
Url(origin, file) == [origin |-> origin, file |-> file]

AVATAR_URL == Url("https://github.com", File("bmarwell", 0, ".png"))

HTML_FILE == "index.html"

InitialAvatarFilename == File("avatar", 0, ".png")

\* The WebP name left empty until a level is kept.
UnsetWebpFilename == File("", 0, "")

InitialWebpFilename == File("avatar", 0, ".webp")

\* The empty string, the only falsy file name.
NoName == File("", 0, "")

Truthy(name) == name # NoName

qualities == <<80, 75, 70, 65, 60>>

sizes == <<150, 300, 460>>

\* path.replace(/\.(png|jpg|jpeg)$/, ext)
ReplaceExt(p, ext) ==
  IF p.ext \in {".png", ".jpg", ".jpeg"} THEN File(p.base, p.size, ext) ELSE p

\* A replacement that drops the width tag: every size goes to one file.
SizedPath_NoWidth(p, size, ext) ==
  IF p.ext \in {".png", ".jpg", ".jpeg"} THEN File(p.base, 0, ext) ELSE p

\* path.replace(/\.(jpg|jpeg|png)$/, `-${size}w${ext}`)
SizedPath(p, size, ext) ==
  IF p.ext \in {".png", ".jpg", ".jpeg"} THEN File(p.base, size, ext) ELSE p

Range(s) == {s[i] : i \in 1..Len(s)}

\* The full-size images of dist/.
ImagePaths == {File("avatar", 0, e) : e \in {".png", ".jpg", ".webp"}}

\* ----------------------------------------------------------------- images
Image(b0, b1, len, w, h) == [b0 |-> b0, b1 |-> b1, len |-> len, w |-> w, h |-> h]

\* What the server may hold: PNG, JPEG and two unclassifiable headers.
FetchableImages ==
  {Image(b0, b1, len, w, h) :
     b0 \in {137, 255}, b1 \in {80, 216}, len \in 2..MaxLen,
     w \in 1..MaxDim, h \in 1..MaxDim}

\* Byte lengths an encoder may produce.
EncodedLens == 1..(MaxLen + 1)

\* Byte lengths of a sized rendition: below and above any master.
SizedLens == {1, MaxLen + 1}

\* A detection that never recognises a JPEG.
extension_AlwaysPng(buf) == ".png"

isPNG(buf) == buf.b0 = 137 /\ buf.b1 = 80

isJPEG(buf) == buf.b0 = 255 /\ buf.b1 = 216

extension(buf) == IF isJPEG(buf) THEN ".jpg" ELSE ".png"

\* let format = 'unknown'; 'PNG' if isPNG; 'JPEG' if isJPEG
format(buf) == IF isJPEG(buf) THEN "JPEG" ELSE IF isPNG(buf) THEN "PNG" ELSE "unknown"

\* const plugins = isPNG ? [imageminOptipng(...)] : [imageminMozjpeg(...)]
plugins(buf) == IF isPNG(buf) THEN "optipng" ELSE "mozjpeg"

\* An imagemin plugin recompresses the format it is written for and hands
\* any other buffer back as it is.
Recompress(plugin, buf, len) ==
  IF (plugin = "optipng" /\ isPNG(buf)) \/ (plugin = "mozjpeg" /\ isJPEG(buf))
  THEN [buf EXCEPT !.len = len]
  ELSE buf

\* --------------------------------------------------------------- document
Token(ctx, val, n, digits) == [ctx |-> ctx, val |-> val, n |-> n, digits |-> digits]

\* attr="url"
Attr(ctx, url) == Token(ctx, <<url>>, 0, FALSE)

\* "image":<n blanks>"url" of the JSON-LD block
JsonImage(url, blanks) == Token("image", <<url>>, blanks, FALSE)

\* <meta property="og:image:width|height" content="...">; digits: content is \d+
OgMeta(prop, n, digits) == Token(prop, <<>>, n, digits)

\* The widths the site's tests ask the server for.
testedWidths == <<200>>

\* The widths written out in the srcset replacement strings.
srcsetWidths == <<150, 300, 460>>

\* srcset="/avatar-150w<ext> 150w, /avatar-300w<ext> 300w, /avatar-460w<ext> 460w"
SizedSrcset(ext) ==
  Token("srcset", [i \in 1..Len(srcsetWidths) |-> Url("", File("avatar", srcsetWidths[i], ext))],
        0, FALSE)

SizesAttr == Token("sizes", <<>>, 0, FALSE)

RECURSIVE Flatten(_)
Flatten(ss) == IF ss = <<>> THEN <<>> ELSE Head(ss) \o Flatten(Tail(ss))

\* html.replace(/pattern/g, replacement) over the tokens of the document:
\* every token the pattern matches (match[i]) is replaced by repl[i], a
\* replacement is not rescanned.
ReplaceAll(doc, match, repl) ==
  Flatten([i \in 1..Len(doc) |-> IF match[i] THEN repl[i] ELSE <<doc[i]>>])

IsPlaceholder(t, ctx) == t.ctx = ctx /\ t.val = <<AVATAR_URL>>

\* /srcset="https:\/\/github\.com\/bmarwell\.png"/g -> the sized WebP srcset and sizes
ReplaceSrcset(html) ==
  ReplaceAll(html, [i \in DOMAIN html |-> IsPlaceholder(html[i], "srcset")],
                   [i \in DOMAIN html |-> <<SizedSrcset(".webp"), SizesAttr>>])

\* A replacement that adds the srcset but leaves the matched src as it was.
ReplaceSrc_KeepsPlaceholder(html, avatarPath) ==
  ReplaceAll(html, [i \in DOMAIN html |-> IsPlaceholder(html[i], "src")],
                   [i \in DOMAIN html |-> <<SizedSrcset(".jpg"), SizesAttr, html[i]>>])

\* /src="https:\/\/github\.com\/bmarwell\.png"/g -> the sized JPEG srcset, sizes, src
ReplaceSrc(html, avatarPath) ==
  ReplaceAll(html, [i \in DOMAIN html |-> IsPlaceholder(html[i], "src")],
                   [i \in DOMAIN html |->
                      <<SizedSrcset(".jpg"), SizesAttr, Attr("src", avatarPath)>>])

\* /content="https:\/\/github\.com\/bmarwell\.png"/g
ReplaceContent(html, avatarFullUrl) ==
  ReplaceAll(html, [i \in DOMAIN html |-> IsPlaceholder(html[i], "content")],
                   [i \in DOMAIN html |-> <<Attr("content", avatarFullUrl)>>])

\* The JSON-LD substitution left out.
ReplaceJsonLd_Skipped(html, avatarFullUrl) == html

\* /"image":\s*"https:\/\/github\.com\/bmarwell\.png"/g
ReplaceJsonLd(html, avatarFullUrl) ==
  ReplaceAll(html, [i \in DOMAIN html |-> IsPlaceholder(html[i], "image")],
                   [i \in DOMAIN html |-> <<JsonImage(avatarFullUrl, 0)>>])

\* A pattern that takes any content for a dimension, numeric or not.
ReplaceOgDimension_AnyContent(html, prop, value) ==
  ReplaceAll(html, [i \in DOMAIN html |-> html[i].ctx = prop],
                   [i \in DOMAIN html |-> <<OgMeta(prop, value, TRUE)>>])

\* /<meta property="og:image:width|height" content="\d+">/g
ReplaceOgDimension(html, prop, value) ==
  ReplaceAll(html, [i \in DOMAIN html |-> html[i].ctx = prop /\ html[i].digits],
                   [i \in DOMAIN html |-> <<OgMeta(prop, value, TRUE)>>])

\* The substitutions of updateHTMLReferences, in the order the code applies them.
updateHTMLReferences_replace(html, filename, webpFilename, width, height) ==
  LET avatarPath == Url("", filename)
      avatarWebpPath == IF Truthy(webpFilename) THEN <<Url("", webpFilename)>> ELSE <<>>
      avatarFullUrl == Url("https://bmarwell.de", filename)
      h1 == IF avatarWebpPath # <<>> THEN ReplaceSrcset(html) ELSE html
      h2 == ReplaceSrc(h1, avatarPath)
      h3 == ReplaceContent(h2, avatarFullUrl)
      h4 == ReplaceJsonLd(h3, avatarFullUrl)
      h5 == ReplaceOgDimension(h4, "og:image:width", width)
      h6 == ReplaceOgDimension(h5, "og:image:height", height)
  IN  h6

\* The document build-html.js leaves in dist/: a <picture> with a WebP
\* <source srcset> and an <img src>, the og:image meta with its dimensions,
\* the JSON-LD image, and a profile link that is no reference context.
TemplateDoc ==
  << Attr("srcset", AVATAR_URL), Attr("src", AVATAR_URL),
     Attr("content", AVATAR_URL), OgMeta("og:image:width", 0, TRUE),
     OgMeta("og:image:height", 0, TRUE), JsonImage(AVATAR_URL, 1),
     Attr("href", AVATAR_URL) >>

\* The same page without the <picture> source and with empty dimension fields.
PlainDoc ==
  << Attr("src", AVATAR_URL), Attr("content", AVATAR_URL),
     OgMeta("og:image:width", 0, FALSE), OgMeta("og:image:height", 0, TRUE),
     JsonImage(AVATAR_URL, 0) >>

BuiltDocs == {TemplateDoc, PlainDoc}

\* A key file as build-html.js copies it: armor lines around repeated data lines.
KeyDoc ==
  << Token("armor", <<>>, 0, FALSE), Token("data", <<>>, 0, FALSE),
     Token("data", <<>>, 0, FALSE), Token("armor", <<>>, 0, FALSE) >>

\* ------------------------------------------------------------ compression
Algorithms == {"br", "gz", "zst"}

TextFiles == {HTML_FILE, "bmarwell.asc", "bmarwell-apache.asc", "bmarwell-personal.asc"}

\* Each script's own FILES_TO_COMPRESS.
FILES_TO_COMPRESS(alg) ==
  IF alg = "br" THEN <<"index.html", "bmarwell.asc">>
  ELSE <<"index.html", "bmarwell-apache.asc", "bmarwell-personal.asc">>

\* Each script's default COMPRESSION_LEVEL.
COMPRESSION_LEVEL(alg) == CASE alg = "br" -> 11 [] alg = "gz" -> 9 [] alg = "zst" -> 22

\* `${filePath}.br`, `${filePath}.gz`, `${filePath}.zst`
outputPath(filePath, alg) == <<filePath, alg>>

SiblingPaths == {outputPath(f, a) : f \in TextFiles, a \in Algorithms}

RECURSIVE Encode(_)
\* The codec's lossless coding, here run lengths: <<token, count>> pairs.
Encode(bytes) ==
  IF bytes = <<>> THEN <<>>
  ELSE LET rest == Encode(Tail(bytes))
       IN  IF rest # <<>> /\ rest[1].tok = Head(bytes)
           THEN <<[tok |-> Head(bytes), count |-> rest[1].count + 1]>> \o Tail(rest)
           ELSE <<[tok |-> Head(bytes), count |-> 1]>> \o rest

RECURSIVE Decode(_)
Decode(coded) ==
  IF coded = <<>> THEN <<>>
  ELSE [i \in 1..coded[1].count |-> coded[1].tok] \o Decode(Tail(coded))

\* brotli.compress / pako.gzip / zstd.compress of a buffer at a level.
Compress(alg, level, bytes) == [alg |-> alg, level |-> level, coded |-> Encode(bytes)]

\* What a client's decoder for the sibling's algorithm recovers.
Decompress(artifact) == Decode(artifact.coded)

\* ------------------------------------------------------------------ state
VARIABLES
  pc,                   \* position of the avatar script's main()
  files,                \* dist/: image path -> <<>> (absent) or <<image>>
  variants,             \* dist/: the responsive renditions written (nothing reads them back)
  text,                 \* dist/: text artifact -> <<>> (absent) or <<document>>
  AVATAR_FILENAME, AVATAR_WEBP_FILENAME, AVATAR_DEST,   \* the script's globals
  hops,                 \* downloadAvatar: redirects followed, counted up to MaxHops
  response,             \* downloadAvatar: <<>> or the response the callback was given
  received,             \* downloadAvatar: bytes pushed to chunks so far
  settles,              \* history: calls of the promise's resolve or reject
  imageData,            \* main: the fetched bytes, <<>> before the fetch
  originalBuffer,       \* optimizeImage: the bytes read back from filePath
  correctPath,          \* optimizeImage: filePath with the detected extension
  optimized,            \* optimizeImage: imagemin's output
  qi,                   \* createWebP: index of the quality level in hand
  webpBuffer,           \* createWebP: the encoding of the level in hand
  si,                   \* createWebP: index of the responsive size in hand
  sizedBuffer,          \* createWebP: the sized rendition in hand
  htmlBuf,              \* updateHTMLReferences: the document in memory
  exitCode,             \* process exit code once the script has ended
  outcome,              \* "ready" | "fallback" once main() has returned
  html0,                \* history: the document before the run
  attempted,            \* history: the quality levels encoded, in order
  accepted,             \* history: the quality levels written and kept
  failures,             \* history: the steps that threw
  overwrote,            \* history: optimizeImage wrote the optimized bytes
  runs,                 \* history: completed runs of updateHTMLReferences
  html1,                \* history: the document the first run wrote
  cpc,                  \* per compression script: position of its main()
  ci,                   \* per script: index into FILES_TO_COMPRESS
  content,              \* per script: compressFile's buffer read from filePath
  compressed,           \* per script: compressFile's compressed buffer
  siblings,             \* dist/: sibling path -> <<>> (absent) or <<artifact>>
  clog,                 \* per script: what it logged per file, in order
  cexit,                \* per script: exit code once it has ended
  readWhen              \* history, per script: whether the avatar script could still
                        \* write the markup document when the script read it

globals == <<AVATAR_FILENAME, AVATAR_WEBP_FILENAME, AVATAR_DEST>>

downloadVars == <<response, received, settles>>

locals == <<imageData, originalBuffer, correctPath, optimized, qi, webpBuffer, si,
            sizedBuffer, htmlBuf>>

history == <<html0, attempted, accepted, failures, overwrote, runs, html1>>

compressVars == <<cpc, ci, content, compressed, siblings, clog, cexit, readWhen>>

vars == <<pc, files, variants, text, globals, hops, downloadVars, locals, exitCode, outcome,
          history, compressVars>>

originalSize == originalBuffer[1].len

\* The master file as the globals name it.
MasterFile == files[AVATAR_DEST]

\* An awaited call throws inside main()'s try block: control goes to its catch.
Throw(step) ==
  /\ pc' = "catch"
  /\ failures' = failures \cup {step}

\* The module-level initialisers of the avatar script.
InitGlobals ==
  /\ AVATAR_FILENAME = InitialAvatarFilename
  /\ AVATAR_WEBP_FILENAME = InitialWebpFilename
  /\ AVATAR_DEST = InitialAvatarFilename

InitLocals ==
  /\ variants = {}
  /\ hops = 0
  /\ response = <<>>
  /\ received = 0
  /\ settles = 0
  /\ imageData = <<>>
  /\ originalBuffer = <<>>
  /\ correctPath = NoName
  /\ optimized = <<>>
  /\ qi = 1
  /\ webpBuffer = <<>>
  /\ si = 1
  /\ sizedBuffer = <<>>
  /\ htmlBuf = <<>>
  /\ exitCode = -1
  /\ outcome = "running"
  /\ attempted = <<>>
  /\ accepted = <<>>
  /\ failures = {}
  /\ overwrote = FALSE
  /\ runs = 0
  /\ html1 = <<>>

InitCompress ==
  /\ ci = [a \in Algorithms |-> 1]
  /\ content = [a \in Algorithms |-> <<>>]
  /\ compressed = [a \in Algorithms |-> <<>>]
  /\ siblings = [p \in SiblingPaths |-> <<>>]
  /\ clog = [a \in Algorithms |-> <<>>]
  /\ cexit = [a \in Algorithms |-> -1]
  /\ readWhen = [a \in Algorithms |-> "none"]

\* The avatar script alone, on a freshly built dist/.
Init ==
  /\ pc = "download"
  /\ files = [p \in ImagePaths |-> <<>>]
  /\ InitGlobals
  /\ InitLocals
  /\ InitCompress
  /\ cpc = [a \in Algorithms |-> "idle"]
  /\ \E doc \in BuiltDocs :
       /\ text = [f \in TextFiles |-> IF f = HTML_FILE THEN <<doc>> ELSE <<>>]
       /\ html0 = doc

\* ------------------------------------------------------ downloadAvatar
\* Status codes a server may answer with.
Statuses == {200, 204, 301, 302, 307, 308, 404, 500}

\* The statuses download() follows to the Location target.
FollowedStatuses == {301, 302}

\* The only status whose body download() collects.
AcceptedStatuses == {200}

Response(status, location, body) == [status |-> status, location |-> location, body |-> body]

\* reject(error): the promise rejects and main()'s await throws.
Reject ==
  /\ Throw("fetch")
  /\ settles' = settles + 1

\* The pending promise is never settled and nothing else is scheduled: the
\* process ends when its event loop is empty, main() still at its first await.
NeverSettles ==
  /\ pc' = "exit"
  /\ exitCode' = 0
  /\ outcome' = "unsettled"
  /\ failures' = failures \cup {"body"}

\* .on('error', reject): the request fails before a response arrives.
downloadAvatar_error ==
  /\ pc = "download"
  /\ response = <<>>
  /\ Reject
  /\ hops' = 0
  /\ UNCHANGED <<compressVars, response, received, files, variants, text, globals, locals,
                 exitCode, outcome, html0, attempted, accepted, overwrote, runs, html1>>

\* https.get's callback is given a response: any status, a 3xx with or
\* without a Location header; a 200 carries the image.
downloadAvatar_response ==
  /\ pc = "download"
  /\ response = <<>>
  /\ \E status \in Statuses, location \in BOOLEAN :
       /\ location => status \in 300..399
       /\ \E body \in IF status = 200 THEN {<<img>> : img \in FetchableImages} ELSE {<<>>} :
            response' = <<Response(status, location, body)>>
  /\ UNCHANGED <<compressVars, received, settles, pc, files, variants, text, globals, hops,
                 locals, exitCode, outcome, history>>

\* The server answers 301/302: download() is called again with the Location,
\* however many redirects were followed before (hops counts them up to MaxHops
\* and stays there: "MaxHops or more").
\* Without a Location header download(undefined) issues a request that names
\* no target: it fails into reject, or it is never answered.
downloadAvatar_redirect ==
  /\ pc = "download"
  /\ response # <<>>
  /\ response[1].status \in FollowedStatuses
  /\ IF response[1].location
     THEN /\ hops' = IF hops < MaxHops THEN hops + 1 ELSE hops
          /\ response' = <<>>
          /\ UNCHANGED <<pc, settles, exitCode, outcome, history>>
     ELSE /\ hops' = 0
          /\ UNCHANGED response
          /\ \/ Reject /\ UNCHANGED <<exitCode, outcome>>
             \/ NeverSettles /\ UNCHANGED settles
          /\ UNCHANGED <<html0, attempted, accepted, overwrote, runs, html1>>
  /\ UNCHANGED <<compressVars, received, files, variants, text, globals, locals>>

\* A status other than 200 (and not a followed redirect): the promise rejects.
downloadAvatar_reject ==
  /\ pc = "download"
  /\ response # <<>>
  /\ response[1].status \notin FollowedStatuses
  /\ response[1].status \notin AcceptedStatuses
  /\ Reject
  /\ hops' = 0
  /\ UNCHANGED <<compressVars, response, received, files, variants, text, globals, locals,
                 exitCode, outcome, html0, attempted, accepted, overwrote, runs, html1>>

\* response.on('data', chunk => chunks.push(chunk))
downloadAvatar_data ==
  /\ pc = "download"
  /\ response # <<>>
  /\ response[1].status \in AcceptedStatuses
  /\ received < response[1].body[1].len
  /\ \E n \in (received + 1)..response[1].body[1].len : received' = n
  /\ UNCHANGED <<compressVars, response, settles, pc, files, variants, text, globals, hops,
                 locals, exitCode, outcome, history>>

\* The connection is lost while the body is being received: the response has
\* no 'error' or 'aborted' listener and 'end' is never emitted.
downloadAvatar_aborted ==
  /\ pc = "download"
  /\ response # <<>>
  /\ response[1].status \in AcceptedStatuses
  /\ received < response[1].body[1].len
  /\ NeverSettles
  /\ hops' = 0
  /\ UNCHANGED <<compressVars, downloadVars, files, variants, text, globals, locals,
                 html0, attempted, accepted, overwrote, runs, html1>>

\* response.on('end'): the promise resolves with Buffer.concat(chunks).
downloadAvatar_resolve ==
  /\ pc = "download"
  /\ response # <<>>
  /\ response[1].status \in AcceptedStatuses
  /\ received = response[1].body[1].len
  /\ imageData' = <<[response[1].body[1] EXCEPT !.len = received]>>
  /\ settles' = settles + 1
  /\ pc' = "store"
  /\ hops' = 0
  /\ UNCHANGED <<compressVars, response, received, files, variants, text, globals,
                 originalBuffer, correctPath, optimized, qi, webpBuffer, si, sizedBuffer,
                 htmlBuf, exitCode, outcome, history>>

\* ---------------------------------------------------------------- main
\* await fs.writeFile(AVATAR_DEST, imageData)
main_store ==
  /\ pc = "store"
  /\ \/ /\ files' = [files EXCEPT ![AVATAR_DEST] = imageData]
        /\ pc' = "opt_read"
        /\ UNCHANGED failures
     \/ /\ Throw("store")
        /\ UNCHANGED files
  /\ UNCHANGED <<downloadVars, compressVars, variants, text, globals, hops, locals, exitCode, outcome,
                 html0, attempted, accepted, overwrote, runs, html1>>

\* -------------------------------------------------------- optimizeImage
\* await fs.readFile(filePath), the format detection and correctPath.
optimizeImage_read ==
  /\ pc = "opt_read"
  /\ \/ /\ files[AVATAR_DEST] # <<>>
        /\ originalBuffer' = files[AVATAR_DEST]
        /\ correctPath' = ReplaceExt(AVATAR_DEST, extension(files[AVATAR_DEST][1]))
        /\ pc' = IF correctPath' # AVATAR_DEST THEN "opt_rename" ELSE "opt_imagemin"
        /\ UNCHANGED failures
     \/ /\ Throw("read")
        /\ UNCHANGED <<originalBuffer, correctPath>>
  /\ UNCHANGED <<downloadVars, compressVars, files, variants, text, globals, hops, imageData, optimized, qi, webpBuffer, si,
                 sizedBuffer, htmlBuf, exitCode, outcome,
                 html0, attempted, accepted, overwrote, runs, html1>>

\* await fs.rename(filePath, correctPath), then the globals follow.
optimizeImage_rename ==
  /\ pc = "opt_rename"
  /\ \/ /\ files' = [files EXCEPT ![AVATAR_DEST] = <<>>, ![correctPath] = files[AVATAR_DEST]]
        /\ AVATAR_FILENAME' = correctPath
        /\ AVATAR_DEST' = correctPath
        /\ pc' = "opt_imagemin"
        /\ UNCHANGED failures
     \/ /\ Throw("rename")
        /\ UNCHANGED <<files, AVATAR_FILENAME, AVATAR_DEST>>
  /\ UNCHANGED <<downloadVars, compressVars, variants, text, AVATAR_WEBP_FILENAME, hops, locals, exitCode, outcome,
                 html0, attempted, accepted, overwrote, runs, html1>>

\* "Only keep if optimization actually helps"
KeepAlways(optimizedLength, size) == TRUE

KeepOptimized(optimizedLength, size) == optimizedLength < size

\* await imagemin.buffer(originalBuffer, {plugins}): the compressor keeps the
\* format and the pixels and returns some number of bytes, or throws.
optimizeImage_imagemin ==
  /\ pc = "opt_imagemin"
  /\ \/ /\ \E len \in EncodedLens :
             optimized' = <<Recompress(plugins(originalBuffer[1]), originalBuffer[1], len)>>
        /\ pc' = IF KeepOptimized(optimized'[1].len, originalSize)
                 THEN "opt_write" ELSE "webp_encode"
        /\ UNCHANGED failures
     \/ /\ Throw("optimize")
        /\ UNCHANGED optimized
  /\ UNCHANGED <<downloadVars, compressVars, files, variants, text, globals, hops, imageData, originalBuffer, correctPath,
                 qi, webpBuffer, si, sizedBuffer, htmlBuf, exitCode, outcome,
                 html0, attempted, accepted, overwrote, runs, html1>>

\* await fs.writeFile(correctPath, optimized)
optimizeImage_write ==
  /\ pc = "opt_write"
  /\ \/ /\ files' = [files EXCEPT ![correctPath] = optimized]
        /\ overwrote' = TRUE
        /\ pc' = "webp_encode"
        /\ UNCHANGED failures
     \/ /\ Throw("optimize-write")
        /\ UNCHANGED <<files, overwrote>>
  /\ UNCHANGED <<downloadVars, compressVars, variants, text, globals, hops, locals, exitCode, outcome,
                 html0, attempted, accepted, runs, html1>>

\* ----------------------------------------------------------- createWebP
\* createWebP(correctPath, originalSize): the size every level is compared with.
createWebP_originalSize == originalSize

\* A size test that lets every encoding through.
AlwaysQualifies(webpLength, size) == TRUE

WebpQualifies(webpLength, size) == webpLength < size

\* The search given up at the first level that is not kept.
GiveUp(i) == Len(qualities) + 1

\* The loop index after a level that was not kept.
NextLevel(i) == i + 1

\* The loop index after a level that was kept: once the loop goes on instead.
NoBreak(i) == i + 1

\* The loop index after a level that was kept: break.
Break(i) == Len(qualities) + 1

LoopPc(i) == IF i > Len(qualities) THEN "sized_jpg_encode" ELSE "webp_encode"

\* await sharp(sourcePath).webp({quality, effort: 6}).toBuffer() and the size test;
\* an encoder error is caught inside the loop.  webpBuffer is scoped to the level.
createWebP_encode ==
  /\ pc = "webp_encode"
  /\ qi <= Len(qualities)
  /\ attempted' = Append(attempted, qualities[qi])
  /\ \/ /\ files[correctPath] # <<>>
        /\ \E len \in EncodedLens :
             LET buf == Image(82, 73, len, files[correctPath][1].w, files[correctPath][1].h)
             IN  IF WebpQualifies(buf.len, createWebP_originalSize)
                 THEN webpBuffer' = <<buf>> /\ pc' = "webp_write" /\ qi' = qi
                 ELSE webpBuffer' = <<>> /\ qi' = NextLevel(qi) /\ pc' = LoopPc(qi')
        /\ UNCHANGED failures
     \/ /\ failures' = failures \cup {"quality"}
        /\ qi' = NextLevel(qi)
        /\ pc' = LoopPc(qi')
        /\ UNCHANGED webpBuffer
  /\ UNCHANGED <<downloadVars, compressVars, files, variants, text, globals, hops, imageData, originalBuffer, correctPath,
                 optimized, si, sizedBuffer, htmlBuf, exitCode, outcome,
                 html0, accepted, overwrote, runs, html1>>

\* await fs.writeFile(webpPath, webpBuffer), the global and the break;
\* a write error is caught inside the loop like an encoder error.
createWebP_write ==
  /\ pc = "webp_write"
  /\ \/ /\ files' = [files EXCEPT ![ReplaceExt(correctPath, ".webp")] = webpBuffer]
        /\ AVATAR_WEBP_FILENAME' = ReplaceExt(correctPath, ".webp")
        /\ accepted' = Append(accepted, qualities[qi])
        /\ qi' = Break(qi)
        /\ UNCHANGED failures
     \/ /\ failures' = failures \cup {"quality-write"}
        /\ qi' = NextLevel(qi)
        /\ UNCHANGED <<files, AVATAR_WEBP_FILENAME, accepted>>
  /\ webpBuffer' = <<>>
  /\ pc' = LoopPc(qi')
  /\ UNCHANGED <<downloadVars, compressVars, variants, text, AVATAR_FILENAME, AVATAR_DEST, hops, imageData,
                 originalBuffer, correctPath, optimized, si, sizedBuffer, htmlBuf,
                 exitCode, outcome, html0, attempted, overwrote, runs, html1>>

\* await sharp(sourcePath).resize(size, size, {fit: 'cover'}).jpeg(...).toBuffer()
createWebP_sized_jpg_encode ==
  /\ pc = "sized_jpg_encode"
  /\ \/ /\ files[correctPath] # <<>>
        /\ \E len \in SizedLens :
             sizedBuffer' = <<Image(255, 216, len, sizes[si], sizes[si])>>
        /\ pc' = "sized_jpg_write"
        /\ UNCHANGED failures
     \/ /\ Throw("sized-encode")
        /\ UNCHANGED sizedBuffer
  /\ UNCHANGED <<downloadVars, compressVars, files, variants, text, globals, hops, imageData, originalBuffer, correctPath,
                 optimized, qi, webpBuffer, si, htmlBuf, exitCode, outcome,
                 html0, attempted, accepted, overwrote, runs, html1>>

\* await fs.writeFile(jpgPath, jpgBuffer)
createWebP_sized_jpg_write ==
  /\ pc = "sized_jpg_write"
  /\ \/ /\ variants' = variants \cup {SizedPath(correctPath, sizes[si], ".jpg")}
        /\ pc' = "sized_webp_encode"
        /\ UNCHANGED failures
     \/ /\ Throw("sized-write")
        /\ UNCHANGED variants
  /\ sizedBuffer' = <<>>
  /\ UNCHANGED <<downloadVars, compressVars, files, text, globals, hops, imageData, originalBuffer, correctPath,
                 optimized, qi, webpBuffer, si, htmlBuf, exitCode, outcome,
                 html0, attempted, accepted, overwrote, runs, html1>>

\* await sharp(sourcePath).resize(size, size, {fit: 'cover'}).webp(...).toBuffer()
createWebP_sized_webp_encode ==
  /\ pc = "sized_webp_encode"
  /\ \/ /\ files[correctPath] # <<>>
        /\ \E len \in SizedLens :
             sizedBuffer' = <<Image(82, 73, len, sizes[si], sizes[si])>>
        /\ pc' = "sized_webp_write"
        /\ UNCHANGED failures
     \/ /\ Throw("sized-encode")
        /\ UNCHANGED sizedBuffer
  /\ UNCHANGED <<downloadVars, compressVars, files, variants, text, globals, hops, imageData, originalBuffer, correctPath,
                 optimized, qi, webpBuffer, si, htmlBuf, exitCode, outcome,
                 html0, attempted, accepted, overwrote, runs, html1>>

\* await fs.writeFile(webpResPath, webpResBuffer) and the next size.
\* A loop over the sizes that is left after its first round.
AfterSized_RewriteEarly(i) == "rw_read"

\* for (const size of sizes): the next size, or after the last one back
\* through optimizeImage to main(), whose next call is updateHTMLReferences.
AfterSized(i) == IF i > Len(sizes) THEN "rw_read" ELSE "sized_jpg_encode"

createWebP_sized_webp_write ==
  /\ pc = "sized_webp_write"
  /\ \/ /\ variants' = variants \cup {SizedPath(correctPath, sizes[si], ".webp")}
        /\ si' = si + 1
        /\ pc' = AfterSized(si')
        /\ UNCHANGED failures
     \/ /\ Throw("sized-write")
        /\ UNCHANGED <<variants, si>>
  /\ sizedBuffer' = <<>>
  /\ UNCHANGED <<downloadVars, compressVars, files, text, globals, hops, imageData, originalBuffer, correctPath,
                 optimized, qi, webpBuffer, htmlBuf, exitCode, outcome,
                 html0, attempted, accepted, overwrote, runs, html1>>

\* ------------------------------------------------- updateHTMLReferences
\* await fs.readFile(HTML_FILE, 'utf-8')
updateHTMLReferences_read ==
  /\ pc = "rw_read"
  /\ \/ /\ text[HTML_FILE] # <<>>
        /\ htmlBuf' = text[HTML_FILE]
        /\ pc' = "rw_meta"
        /\ UNCHANGED failures
     \/ /\ Throw("html-read")
        /\ UNCHANGED htmlBuf
  /\ UNCHANGED <<downloadVars, compressVars, files, variants, text, globals, hops, imageData, originalBuffer, correctPath,
                 optimized, qi, webpBuffer, si, sizedBuffer, exitCode, outcome,
                 html0, attempted, accepted, overwrote, runs, html1>>

\* await sharp(AVATAR_DEST).metadata(), then every substitution, in memory.
updateHTMLReferences_metadata ==
  /\ pc = "rw_meta"
  /\ \/ /\ MasterFile # <<>>
        /\ htmlBuf' = <<updateHTMLReferences_replace(htmlBuf[1], AVATAR_FILENAME,
                          AVATAR_WEBP_FILENAME, MasterFile[1].w, MasterFile[1].h)>>
        /\ pc' = "rw_write"
        /\ UNCHANGED failures
     \/ /\ Throw("dimensions")
        /\ UNCHANGED htmlBuf
  /\ UNCHANGED <<downloadVars, compressVars, files, variants, text, globals, hops, imageData, originalBuffer, correctPath,
                 optimized, qi, webpBuffer, si, sizedBuffer, exitCode, outcome,
                 html0, attempted, accepted, overwrote, runs, html1>>

\* await fs.writeFile(HTML_FILE, html)
updateHTMLReferences_write ==
  /\ pc = "rw_write"
  /\ \/ /\ text' = [text EXCEPT ![HTML_FILE] = htmlBuf]
        /\ runs' = runs + 1
        /\ html1' = IF runs = 0 THEN htmlBuf ELSE html1
        /\ pc' = "ready"
        /\ UNCHANGED failures
     \/ /\ Throw("html-write")
        /\ UNCHANGED <<text, runs, html1>>
  /\ UNCHANGED <<downloadVars, compressVars, files, variants, globals, hops, locals, exitCode, outcome,
                 html0, attempted, accepted, overwrote>>

\* ------------------------------------------------------- main: the ends
\* The try block completed: "Avatar ready!"; the process ends with code 0.
main_ready ==
  /\ pc = "ready"
  /\ pc' = "exit"
  /\ outcome' = "ready"
  /\ exitCode' = 0
  /\ UNCHANGED <<downloadVars, compressVars, files, variants, text, globals, hops, locals, history>>

\* A handler that fails the build, as build-html.js's does.
main_catch_exit1 ==
  /\ pc = "catch"
  /\ pc' = "exit"
  /\ outcome' = "fallback"
  /\ exitCode' = 1
  /\ UNCHANGED <<downloadVars, compressVars, files, variants, text, globals, hops, locals, history>>

\* The catch block: warn, keep the external URL, do not fail the build.
main_catch ==
  /\ pc = "catch"
  /\ pc' = "exit"
  /\ outcome' = "fallback"
  /\ exitCode' = 0
  /\ UNCHANGED <<downloadVars, compressVars, files, variants, text, globals, hops, locals, history>>

\* The document taken as final one step early, before writeFile has acted.
SettledBeforeWrite == pc \in {"rw_write", "ready", "catch", "exit", "idle"}

\* The avatar script is past its only write of the markup document, or has
\* given up, or is not running.
Settled == pc \in {"ready", "catch", "exit", "idle"}

\* ------------------------------------------- the compression scripts
\* compress-brotli.js, the Gzip script and the Zstandard script share one shape;
\* alg names the script.
file(alg) == FILES_TO_COMPRESS(alg)[ci[alg]]

\* The for loop of main() goes on to the next file, or main() returns.
NextFile(alg, i) ==
  /\ ci' = [ci EXCEPT ![alg] = i]
  /\ IF i > Len(FILES_TO_COMPRESS(alg))
     THEN cpc' = [cpc EXCEPT ![alg] = "done"] /\ cexit' = [cexit EXCEPT ![alg] = 0]
     ELSE cpc' = [cpc EXCEPT ![alg] = "access"] /\ UNCHANGED cexit

Log(alg, kind) == clog' = [clog EXCEPT ![alg] = Append(@, [file |-> file(alg), kind |-> kind])]

\* The loop index after a missing file, were the loop left.
AbortOnMissing(alg) == Len(FILES_TO_COMPRESS(alg)) + 1

\* The loop index after main()'s catch: the warning, then the next file.
AfterMissing(alg) == ci[alg] + 1

\* The loop index after a failure that compressFile did not catch and that
\* rejected main(): no further file.
AbortOnFailure(alg) == Len(FILES_TO_COMPRESS(alg)) + 1

\* The loop index after compressFile's catch: compressFile returns normally.
AfterFailure(alg) == ci[alg] + 1

\* await fs.access(filePath): a missing file is warned about and skipped.
main_access(alg) ==
  /\ cpc[alg] = "access"
  /\ IF text[file(alg)] # <<>>
     THEN /\ cpc' = [cpc EXCEPT ![alg] = "read"]
          /\ UNCHANGED <<ci, clog, cexit>>
     ELSE /\ Log(alg, "skipped")
          /\ NextFile(alg, AfterMissing(alg))
  /\ UNCHANGED <<downloadVars, pc, files, variants, text, globals, hops, locals, exitCode, outcome,
                 history, content, compressed, siblings, readWhen>>

\* compressFile's catch: log the failure, return to main()'s loop.
compressFile_catch(alg) ==
  /\ Log(alg, "failed")
  /\ NextFile(alg, AfterFailure(alg))
  /\ content' = [content EXCEPT ![alg] = <<>>]
  /\ compressed' = [compressed EXCEPT ![alg] = <<>>]

\* const content = await fs.readFile(filePath)
compressFile_read(alg) ==
  /\ cpc[alg] = "read"
  /\ \/ /\ text[file(alg)] # <<>>
        /\ content' = [content EXCEPT ![alg] = text[file(alg)]]
        /\ cpc' = [cpc EXCEPT ![alg] = "compress"]
        /\ readWhen' = IF file(alg) = HTML_FILE
                       THEN [readWhen EXCEPT ![alg] = IF Settled THEN "settled" ELSE "pending"]
                       ELSE readWhen
        /\ UNCHANGED <<ci, clog, cexit, compressed>>
     \/ compressFile_catch(alg) /\ UNCHANGED readWhen
  /\ UNCHANGED <<downloadVars, pc, files, variants, text, globals, hops, locals, exitCode, outcome,
                 history, siblings>>

\* The bytes compressFile hands to the codec: a prefix only.
TruncatedInput(alg) == SubSeq(content[alg][1], 1, 1)

\* The bytes compressFile hands to the codec.
CodecInput(alg) == content[alg][1]

\* const compressed = brotli.compress(content, ...) / pako.gzip / await zstd.compress
compressFile_compress(alg) ==
  /\ cpc[alg] = "compress"
  /\ \/ /\ compressed' = [compressed EXCEPT ![alg] =
                            <<Compress(alg, COMPRESSION_LEVEL(alg), CodecInput(alg))>>]
        /\ cpc' = [cpc EXCEPT ![alg] = "write"]
        /\ UNCHANGED <<ci, clog, cexit, content>>
     \/ compressFile_catch(alg)
  /\ UNCHANGED <<downloadVars, pc, files, variants, text, globals, hops, locals, exitCode, outcome,
                 history, siblings, readWhen>>

\* await fs.writeFile(outputPath, compressed) and the success line.
compressFile_write(alg) ==
  /\ cpc[alg] = "write"
  /\ \/ /\ siblings' = [siblings EXCEPT ![outputPath(file(alg), alg)] = compressed[alg]]
        /\ Log(alg, "compressed")
        /\ NextFile(alg, ci[alg] + 1)
        /\ content' = [content EXCEPT ![alg] = <<>>]
        /\ compressed' = [compressed EXCEPT ![alg] = <<>>]
     \/ /\ compressFile_catch(alg)
        /\ UNCHANGED siblings
  /\ UNCHANGED <<downloadVars, pc, files, variants, text, globals, hops, locals, exitCode, outcome,
                 history, readWhen>>

Next ==
  \/ downloadAvatar_error
  \/ downloadAvatar_response
  \/ downloadAvatar_redirect
  \/ downloadAvatar_reject
  \/ downloadAvatar_data
  \/ downloadAvatar_aborted
  \/ downloadAvatar_resolve
  \/ main_store
  \/ optimizeImage_read
  \/ optimizeImage_rename
  \/ optimizeImage_imagemin
  \/ optimizeImage_write
  \/ createWebP_encode
  \/ createWebP_write
  \/ createWebP_sized_jpg_encode
  \/ createWebP_sized_jpg_write
  \/ createWebP_sized_webp_encode
  \/ createWebP_sized_webp_write
  \/ updateHTMLReferences_read
  \/ updateHTMLReferences_metadata
  \/ updateHTMLReferences_write
  \/ main_ready
  \/ main_catch

Spec == Init /\ [][Next]_vars

\* The three compression scripts on a built dist/ in which any of the text
\* artifacts may be missing; the scripts may run in any interleaving.
InitCompressOnly ==
  /\ pc = "idle"
  /\ files = [p \in ImagePaths |-> <<>>]
  /\ InitGlobals
  /\ InitLocals
  /\ InitCompress
  /\ cpc = [a \in Algorithms |-> "access"]
  /\ html0 = TemplateDoc
  /\ \E present \in SUBSET TextFiles :
       text = [f \in TextFiles |->
                 IF f \notin present THEN <<>>
                 ELSE IF f = HTML_FILE THEN <<TemplateDoc>> ELSE <<KeyDoc>>]

NextCompress ==
  \/ \E alg \in Algorithms : main_access(alg)
  \/ \E alg \in Algorithms : compressFile_read(alg)
  \/ \E alg \in Algorithms : compressFile_compress(alg)
  \/ \E alg \in Algorithms : compressFile_write(alg)

SpecCompress == InitCompressOnly /\ [][NextCompress]_vars

\* ------------------------------------------- the rewriter run twice
\* What may stand in a document: every context a pattern matches, with and
\* without a numeric dimension, and a placeholder outside the reference contexts.
TokenAlphabet ==
  { Attr("srcset", AVATAR_URL), Attr("src", AVATAR_URL), Attr("content", AVATAR_URL),
    JsonImage(AVATAR_URL, 0), JsonImage(AVATAR_URL, 1), Attr("href", AVATAR_URL),
    OgMeta("og:image:width", 0, TRUE), OgMeta("og:image:width", 0, FALSE),
    OgMeta("og:image:height", 0, TRUE), OgMeta("og:image:height", 0, FALSE) }

Documents == UNION {[1..n -> TokenAlphabet] : n \in 0..MaxDocLen}

\* updateHTMLReferences is called again on the document it wrote.
rerun ==
  /\ pc = "exit"
  /\ outcome = "ready"
  /\ runs < 2
  /\ pc' = "rw_read"
  /\ outcome' = "running"
  /\ exitCode' = -1
  /\ htmlBuf' = <<>>
  /\ UNCHANGED <<downloadVars, compressVars, files, variants, text, globals, hops, imageData,
                 originalBuffer, correctPath, optimized, qi, webpBuffer, si, sizedBuffer,
                 history>>

\* updateHTMLReferences alone: any document, a master file of any format and
\* dimensions under the name optimizeImage gives it, the globals as they stand.
InitRewrite ==
  /\ pc = "rw_read"
  /\ InitLocals
  /\ InitCompress
  /\ cpc = [a \in Algorithms |-> "idle"]
  /\ AVATAR_WEBP_FILENAME = InitialWebpFilename
  /\ \E img \in FetchableImages :
       /\ AVATAR_FILENAME = ReplaceExt(InitialAvatarFilename, extension(img))
       /\ AVATAR_DEST = AVATAR_FILENAME
       /\ files = [p \in ImagePaths |-> IF p = AVATAR_DEST THEN <<img>> ELSE <<>>]
  /\ \E doc \in Documents :
       /\ text = [f \in TextFiles |-> IF f = HTML_FILE THEN <<doc>> ELSE <<>>]
       /\ html0 = doc

NextRewrite ==
  \/ updateHTMLReferences_read
  \/ updateHTMLReferences_metadata
  \/ updateHTMLReferences_write
  \/ main_ready
  \/ main_catch
  \/ rerun

SpecRewrite == InitRewrite /\ [][NextRewrite]_vars

\* --------------------------- the compression scripts beside the rewriter
\* The build from the point where createWebP has completed (nothing before it
\* touches a text artifact), with the three compression scripts started on the
\* same dist/: they may run before, between or after the rewriter's steps.
\* The master is a PNG or a JPEG; its length plays no part here.
InitBuild ==
  /\ pc = "rw_read"
  /\ InitLocals
  /\ InitCompress
  /\ cpc = [a \in Algorithms |-> "access"]
  /\ AVATAR_WEBP_FILENAME = InitialWebpFilename
  /\ \E img \in FetchableImages :
       /\ isPNG(img) \/ isJPEG(img)
       /\ img.len = MaxLen /\ img.w = MaxDim /\ img.h = MaxDim
       /\ AVATAR_FILENAME = ReplaceExt(InitialAvatarFilename, extension(img))
       /\ AVATAR_DEST = AVATAR_FILENAME
       /\ files = [p \in ImagePaths |-> IF p = AVATAR_DEST THEN <<img>> ELSE <<>>]
  /\ \E doc \in BuiltDocs :
       /\ text = [f \in TextFiles |-> IF f = HTML_FILE THEN <<doc>> ELSE <<>>]
       /\ html0 = doc

NextBuild ==
  \/ updateHTMLReferences_read
  \/ updateHTMLReferences_metadata
  \/ updateHTMLReferences_write
  \/ main_ready
  \/ main_catch
  \/ \E alg \in Algorithms : main_access(alg)
  \/ \E alg \in Algorithms : compressFile_read(alg)
  \/ \E alg \in Algorithms : compressFile_compress(alg)
  \/ \E alg \in Algorithms : compressFile_write(alg)

SpecBuild == InitBuild /\ [][NextBuild]_vars

\* ============================================================== claims
MasterPaths == {File("avatar", 0, ".png"), File("avatar", 0, ".jpg")}

WebpPath == File("avatar", 0, ".webp")

Document == text[HTML_FILE][1]

\* C1: once the fetched bytes are stored, the master file (under either of its
\* names) is never longer than the fetched bytes, and optimizeImage has
\* overwritten it only with an output strictly shorter than the original.
C1_MasterNeverExceedsFetched ==
  /\ \A p \in MasterPaths : files[p] # <<>> => files[p][1].len <= imageData[1].len
  /\ overwrote => /\ files[correctPath] = optimized
                  /\ optimized[1].len < imageData[1].len

C1_Witness ==
  /\ pc = "exit" /\ outcome = "ready" /\ overwrote
  /\ MasterFile[1].len < imageData[1].len

\* C2 (as claimed): whenever the full-size WebP file exists it is strictly
\* smaller than the stored master as it stands after the optimizer ran.
C2_WebpSmallerThanStoredMaster ==
  (files[WebpPath] # <<>> /\ MasterFile # <<>>)
    => files[WebpPath][1].len < MasterFile[1].len

\* A srcset attribute that names a WebP file.
WebpSrcset(t) == t.ctx = "srcset" /\ \E u \in Range(t.val) : u.file.ext = ".webp"

\* C3 (as claimed): when the run wrote no full-size WebP file, the rewritten
\* document holds no srcset reference to WebP.
C3_NoSrcsetWithoutWebp ==
  (pc = "exit" /\ outcome = "ready" /\ accepted = <<>> /\ files[WebpPath] = <<>>)
    => \A t \in Range(Document) : ~WebpSrcset(t)

\* C4: the levels encoded so far are a prefix of 80, 75, 70, 65, 60, a strictly
\* descending list; at most one level is kept, and the kept level is the last one
\* encoded: every earlier level was encoded and not kept, no later one is encoded.
C4_DescendingFirstSuccess ==
  /\ \A i, j \in 1..Len(qualities) : i < j => qualities[i] > qualities[j]
  /\ Len(attempted) <= Len(qualities)
  /\ attempted = SubSeq(qualities, 1, Len(attempted))
  /\ Len(accepted) <= 1
  /\ accepted # <<>> => accepted[1] = attempted[Len(attempted)]
  /\ (pc \in {"rw_read", "ready"} /\ accepted = <<>>) => attempted = qualities

C4_Witness ==
  /\ pc = "exit" /\ outcome = "ready"
  /\ attempted = <<80, 75, 70>> /\ accepted = <<70>>

FullyRewritten(doc) ==
  \A t \in Range(doc) :
    /\ t.ctx \in {"src", "srcset", "content", "image"} => AVATAR_URL \notin Range(t.val)
    /\ t.ctx = "src" => t.val = <<Url("", AVATAR_FILENAME)>>
    /\ t.ctx \in {"content", "image"} => t.val = <<Url("https://bmarwell.de", AVATAR_FILENAME)>>
    /\ (t.ctx = "og:image:width" /\ t.digits) => t.n = MasterFile[1].w
    /\ (t.ctx = "og:image:height" /\ t.digits) => t.n = MasterFile[1].h

\* C7: at every point of every run, failed or not, the document on disk is
\* either the one from before the run or fully rewritten.
C7_AllOrNothing ==
  Document = html0 \/ (MasterFile # <<>> /\ FullyRewritten(Document))

C7_Witness ==
  /\ pc = "exit" /\ outcome = "ready" /\ Document # html0
  /\ AVATAR_FILENAME = File("avatar", 0, ".jpg")

NoPlaceholderLeft(doc) ==
  \A t \in Range(doc) :
    t.ctx \in {"src", "srcset", "content", "image"} => AVATAR_URL \notin Range(t.val)

\* C6: a second run of updateHTMLReferences on the document the first run
\* wrote, with the same file names and dimensions, writes the same document;
\* after the first run no reference context holds the placeholder and every
\* numeric dimension field holds the master's dimension.
C6_RewriteIdempotent ==
  /\ runs >= 1 =>
       /\ NoPlaceholderLeft(Document)
       /\ \A t \in Range(Document) :
            /\ (t.ctx = "og:image:width" /\ t.digits) => t.n = MasterFile[1].w
            /\ (t.ctx = "og:image:height" /\ t.digits) => t.n = MasterFile[1].h
  /\ runs = 2 => text[HTML_FILE] = html1

C6_Witness ==
  /\ runs = 2 /\ pc = "exit" /\ html1 # <<html0>>
  /\ \E t \in Range(html0) : IsPlaceholder(t, "src")
  /\ \E t \in Range(html0) : t.ctx = "og:image:width" /\ t.digits

Logged(alg, f, kind) == \E i \in 1..Len(clog[alg]) : clog[alg][i] = [file |-> f, kind |-> kind]

Listed(alg) == Range(FILES_TO_COMPRESS(alg))

\* The sibling of f written by alg's script holds the compression of f's bytes.
SiblingOf(alg, f) ==
  /\ siblings[outputPath(f, alg)] # <<>>
  /\ siblings[outputPath(f, alg)][1].alg = alg
  /\ Decompress(siblings[outputPath(f, alg)][1]) = text[f][1]

C9_OthersAlwaysCompressed ==
  \A alg \in Algorithms :
    (cpc[alg] = "done" /\ \E g \in Listed(alg) : text[g] = <<>>) =>
      \A f \in Listed(alg) :
        /\ text[f] = <<>> => (Logged(alg, f, "skipped") /\ siblings[outputPath(f, alg)] = <<>>)
        /\ text[f] # <<>> => SiblingOf(alg, f)

\* C9 (amended): with a file of the list missing, wherever it stands, the
\* missing file is warned about and gets no sibling, and every present file of
\* the list is still handed to compressFile: it is compressed, or its own
\* failure is logged.
C9_MissingFileSkipped ==
  \A alg \in Algorithms :
    (cpc[alg] = "done" /\ \E g \in Listed(alg) : text[g] = <<>>) =>
      \A f \in Listed(alg) :
        /\ text[f] = <<>> =>
             /\ Logged(alg, f, "skipped")
             /\ ~Logged(alg, f, "compressed") /\ ~Logged(alg, f, "failed")
             /\ siblings[outputPath(f, alg)] = <<>>
        /\ text[f] # <<>> =>
             \/ Logged(alg, f, "compressed") /\ SiblingOf(alg, f)
             \/ Logged(alg, f, "failed") /\ siblings[outputPath(f, alg)] = <<>>

C9_Witness ==
  /\ cpc["gz"] = "done" /\ cpc["br"] = "done"
  /\ text[HTML_FILE] = <<>> /\ text["bmarwell-personal.asc"] = <<>>
  /\ SiblingOf("gz", "bmarwell-apache.asc")
  /\ SiblingOf("br", "bmarwell.asc")

\* C10: a finished script has ended with code 0 and has gone through its whole
\* list in order, one log line per file, whichever files failed.
C10_FailuresDoNotStopTheList ==
  \A alg \in Algorithms :
    /\ cexit[alg] \in {-1, 0}
    /\ cpc[alg] = "done" =>
         /\ cexit[alg] = 0
         /\ Len(clog[alg]) = Len(FILES_TO_COMPRESS(alg))
         /\ \A i \in 1..Len(clog[alg]) : clog[alg][i].file = FILES_TO_COMPRESS(alg)[i]
    /\ \A i \in 1..Len(clog[alg]) :
         clog[alg][i].kind = "failed" => siblings[outputPath(clog[alg][i].file, alg)] = <<>>

C10_Witness ==
  /\ \A alg \in Algorithms : cpc[alg] = "done"
  /\ \A f \in Listed("zst") : Logged("zst", f, "failed")
  /\ Logged("gz", "index.html", "failed") /\ Logged("gz", "bmarwell-apache.asc", "compressed")
  /\ Logged("gz", "bmarwell-personal.asc", "failed")

BuildEnded == pc = "exit" /\ \A alg \in Algorithms : cpc[alg] = "done"

HtmlSibling(alg) == siblings[outputPath(HTML_FILE, alg)]

DownloadOver == pc # "download"

\* C12 (as claimed): a response with a 3xx status and a Location header is
\* never answered with a rejection: it is followed.
C12_Every3xxFollowed ==
  ("fetch" \in failures /\ response # <<>>) =>
     ~(response[1].status \in 300..399 /\ response[1].location)

\* C13 (as claimed): once the download is over on a response that download()
\* does not follow, the promise has been settled exactly once: rejected for a
\* non-2xx status or a transport failure, resolved with the whole body otherwise.
C13_SettlesExactlyOnce ==
  /\ settles <= 1
  /\ (DownloadOver /\ response # <<>> /\ response[1].status \notin FollowedStatuses) =>
       /\ settles = 1
       /\ response[1].status \notin 200..299 => "fetch" \in failures
       /\ "fetch" \notin failures => imageData = response[1].body

\* optimizeImage has returned: createWebP's loops, the rewriter, or "ready".
AfterOptimizer ==
  \/ pc \in {"webp_encode", "webp_write", "sized_jpg_encode", "sized_jpg_write",
             "sized_webp_encode", "sized_webp_write", "rw_read", "rw_meta", "rw_write", "ready"}
  \/ pc = "exit" /\ outcome = "ready"

\* C14: after the optimizer the master exists under exactly one name, whose
\* extension matches its format; the optimized bytes were written under that
\* name, after the rename; and a rewritten document names that file in src,
\* content and the JSON-LD image.
C14_MasterNameMatchesFormat ==
  /\ overwrote => (correctPath = AVATAR_DEST /\ AVATAR_FILENAME = AVATAR_DEST)
  /\ AfterOptimizer =>
       /\ MasterFile # <<>>
       /\ \A p \in MasterPaths \ {AVATAR_DEST} : files[p] = <<>>
       /\ isPNG(MasterFile[1]) => AVATAR_FILENAME.ext = ".png"
       /\ isJPEG(MasterFile[1]) => AVATAR_FILENAME.ext = ".jpg"
  /\ runs >= 1 =>
       /\ files[AVATAR_FILENAME] # <<>>
       /\ \A t \in Range(Document) :
            /\ t.ctx = "src" => t.val = <<Url("", AVATAR_FILENAME)>>
            /\ t.ctx \in {"content", "image"} =>
                 t.val = <<Url("https://bmarwell.de", AVATAR_FILENAME)>>

C14_Witness ==
  /\ pc = "exit" /\ outcome = "ready" /\ overwrote
  /\ isJPEG(MasterFile[1]) /\ AVATAR_DEST = File("avatar", 0, ".jpg")
  /\ \E t \in Range(Document) : t.ctx = "image" /\ t.val = <<Url("https://bmarwell.de", AVATAR_DEST)>>

\* C15: after a run that ended "ready", no src, srcset, content or JSON-LD
\* image of the document holds the placeholder URL, whether or not a
\* full-size WebP was written; the placeholder survives outside them only.
C15_NoPlaceholderAfterSuccess ==
  (pc = "exit" /\ outcome = "ready") =>
    \A t \in Range(Document) : AVATAR_URL \in Range(t.val) => t.ctx = "href"

C15_Witness ==
  /\ pc = "exit" /\ outcome = "ready"
  /\ accepted = <<>> /\ files[WebpPath] = <<>>
  /\ html0 = TemplateDoc /\ Document # html0

\* The sized files a srcset of the document names, by extension.
Referenced(ext) ==
  {u.file : u \in UNION {Range(t.val) : t \in {x \in Range(Document) : x.ctx = "srcset"}}}
    \cap {File("avatar", w, ext) : w \in 1..500}

DimensionFields(doc) ==
  SelectSeq(doc, LAMBDA t : t.ctx \in {"og:image:width", "og:image:height"})

\* C17: in a rewritten document every dimension field that held a number
\* holds the width (height) of the master file at its final path, a positive
\* integer, and every other dimension field is as it was.
C17_DimensionsFromFinalMaster ==
  runs >= 1 =>
    LET before == DimensionFields(html0)
        after == DimensionFields(Document)
    IN  /\ Len(after) = Len(before)
        /\ \A i \in 1..Len(before) :
             IF before[i].digits
             THEN /\ after[i].ctx = before[i].ctx /\ after[i].digits
                  /\ after[i].n = IF after[i].ctx = "og:image:width"
                                  THEN files[AVATAR_DEST][1].w ELSE files[AVATAR_DEST][1].h
                  /\ after[i].n \in Nat \ {0}
             ELSE after[i] = before[i]

C17_Witness ==
  /\ pc = "exit" /\ outcome = "ready" /\ overwrote
  /\ html0 = PlainDoc /\ AVATAR_DEST = File("avatar", 0, ".jpg")
  /\ files[AVATAR_DEST][1].w = MaxDim /\ files[AVATAR_DEST][1].h = 1

\* createWebP has returned: the loop over sizes is past its last size.
CreateWebPCompleted == si > Len(sizes)

\* C18: when createWebP has completed, dist/ holds a JPEG and a WebP rendition
\* for every size of the catalog, whether a quality level was kept or none.
C18_AllSizedVariantsWritten ==
  CreateWebPCompleted =>
    /\ pc \in {"rw_read", "rw_meta", "rw_write", "ready", "catch", "exit"}
    /\ \A i \in 1..Len(sizes), ext \in {".jpg", ".webp"} :
         File("avatar", sizes[i], ext) \in variants
    /\ Cardinality(variants) = 2 * Len(sizes)

C18_Witness ==
  /\ pc = "rw_read" /\ CreateWebPCompleted
  /\ accepted = <<>> /\ attempted = qualities /\ "quality" \in failures
  /\ File("avatar", 460, ".webp") \in variants

\* C19 (as claimed): a run in which imagemin or a sized-variant encode threw
\* does not go to main()'s catch and its fallback.
C19_CodecFailuresAbsorbed ==
  (failures \cap {"optimize", "sized-encode"}) # {} =>
    (pc # "catch" /\ outcome # "fallback")

\* The quality search is over.
SearchOver == qi > Len(qualities)

\* C20: an encode failure at a level does not abort: unless another step
\* fails the run does not reach main()'s catch; the search goes on level by
\* level, it ends early only on a kept level, and when it ends with no level
\* kept every level was tried and no full-size WebP exists.
C20_LevelFailureIsNotQualifying ==
  "quality" \in failures =>
    /\ failures \subseteq {"quality", "quality-write"} => (pc # "catch" /\ outcome # "fallback")
    /\ pc \in {"webp_encode", "webp_write"} =>
         (~SearchOver /\ Len(attempted) \in {qi - 1, qi} /\ accepted = <<>>)
    /\ SearchOver => (accepted # <<>> \/ attempted = qualities)
    /\ (SearchOver /\ accepted = <<>>) =>
         (files[WebpPath] = <<>> /\ AVATAR_WEBP_FILENAME = InitialWebpFilename)

C20_Witness ==
  /\ pc = "exit" /\ outcome = "ready" /\ failures = {"quality"}
  /\ attempted = <<80, 75, 70, 65>> /\ accepted = <<65>>
  /\ files[WebpPath] # <<>>

\* A step that changes the file at the full-size WebP path.
WebpFileChanges == files'[WebpPath] # files[WebpPath]

\* C21: the file at the full-size WebP path changes at most once in a run:
\* from absent to the encoding in hand, which is smaller than originalSize and
\* belongs to the level attempted last, no level having been kept before;
\* while no level is kept the path holds nothing.
C21_SingleWebpWrite ==
  /\ [](accepted = <<>> => files[WebpPath] = <<>>)
  /\ [][WebpFileChanges =>
          /\ pc = "webp_write"
          /\ files[WebpPath] = <<>> /\ accepted = <<>>
          /\ files'[WebpPath] = webpBuffer
          /\ webpBuffer[1].len < originalSize
          /\ accepted' = <<attempted[Len(attempted)]>>
          /\ qualities[qi] = attempted[Len(attempted)]]_vars

C21_Witness ==
  /\ pc = "exit" /\ outcome = "ready" /\ failures = {}
  /\ attempted = <<80, 75, 70>> /\ accepted = <<70>>
  /\ files[WebpPath] # <<>> /\ files[WebpPath][1].len < MasterFile[1].len

\* The format a file extension stands for, and the format a plugin is for.
FormatOfExtension(ext) == IF ext = ".jpg" THEN "JPEG" ELSE "PNG"

FormatOfPlugin(plugin) == IF plugin = "mozjpeg" THEN "JPEG" ELSE "PNG"

\* C22 (as claimed): for a file that is neither PNG nor JPEG, the extension
\* optimizeImage gives it and the compressor it picks belong to one format.
C22_UnknownOneBranch ==
  (originalBuffer # <<>> /\ format(originalBuffer[1]) = "unknown") =>
    FormatOfExtension(correctPath.ext) = FormatOfPlugin(plugins(originalBuffer[1]))

\* The source files that have a sibling written by alg's script.
SourcesWithSibling(alg) == {f \in TextFiles : siblings[outputPath(f, alg)] # <<>>}

NoCompressionFailed ==
  \A alg \in Algorithms : \A f \in TextFiles : ~Logged(alg, f, "failed")

\* C23 (as claimed): when the three scripts have finished on the same files
\* and no compression failed, the same source files have a Brotli, a Gzip and a
\* Zstandard sibling.
C23_SameFilesForEveryAlgorithm ==
  ((\A alg \in Algorithms : cpc[alg] = "done") /\ NoCompressionFailed) =>
    /\ SourcesWithSibling("br") = SourcesWithSibling("gz")
    /\ SourcesWithSibling("gz") = SourcesWithSibling("zst")

\* The stage of main() a position belongs to: fetch, store, classify and
\* optimize, generate variants, rewrite, and the end of the run.
Stage(p) ==
  CASE p = "idle" -> 0
    [] p = "download" -> 1
    [] p = "store" -> 2
    [] p \in {"opt_read", "opt_rename", "opt_imagemin", "opt_write"} -> 3
    [] p \in {"webp_encode", "webp_write", "sized_jpg_encode", "sized_jpg_write",
              "sized_webp_encode", "sized_webp_write"} -> 4
    [] p \in {"rw_read", "rw_meta", "rw_write"} -> 5
    [] OTHER -> 6

DocumentWritten == runs' = runs + 1 \/ text'[HTML_FILE] # text[HTML_FILE]

\* C24: the stages never go backwards; the step that writes the markup
\* document is the rewriter's write, taken when the master file and every
\* variant of the run are on disk; once the document is rewritten no master or
\* variant file changes any more.
C24_StagesInOrder ==
  /\ [][Stage(pc') >= Stage(pc)]_vars
  /\ [][DocumentWritten =>
          /\ pc = "rw_write"
          /\ MasterFile # <<>>
          /\ \A p \in MasterPaths : p # AVATAR_DEST => files[p] = <<>>
          /\ \A i \in 1..Len(sizes), ext \in {".jpg", ".webp"} :
               File("avatar", sizes[i], ext) \in variants
          /\ accepted # <<>> => files[WebpPath] # <<>>]_vars
  /\ [][runs >= 1 => (files' = files /\ variants' = variants)]_vars

C24_Witness ==
  /\ pc = "exit" /\ outcome = "ready" /\ runs = 1
  /\ Document # html0 /\ text[HTML_FILE] = html1
  /\ MasterFile # <<>> /\ files[WebpPath] # <<>> /\ overwrote
  /\ Cardinality(variants) = 2 * Len(sizes)

\* The avatar script with every enabled step eventually taken: the event loop
\* runs each callback and continuation that is ready, and a request that was
\* issued is answered or fails.
SpecFair == Init /\ [][Next]_vars /\ WF_vars(Next)

\* C25 (as claimed): whatever the server answers, the script eventually ends:
\* downloadAvatar settles after finitely many redirects.
C25_PipelineTerminates == <>(pc = "exit")

====
